---- MODULE Spec2Model ----
(***************************************************************************)
(* Wallet credit scoring pipeline of scorer.py.                            *)
(*                                                                         *)
(* The script is a straight-line batch job: load the JSON event log,       *)
(* normalise the records, aggregate per wallet, derive ratios, shape the   *)
(* features, min-max scale them, and write wallet/credit_score.  Each      *)
(* numbered section of the script is one action; pc is the position in     *)
(* the script and "failed" is the script dying on an uncaught exception.   *)
(*                                                                         *)
(* Floats are fixed point: a cell is [t |-> "num", v |-> n] with n in      *)
(* thousandths (Milli), or NaN, or -inf.  credit_score is kept in          *)
(* hundredths, which is what round(2) leaves.                              *)
(***************************************************************************)
EXTENDS Integers, Sequences, FiniteSets, TLC

VARIABLES raw_data, df, wallet_action_pivot, wallet_summary, scaled, csv, pc, error

vars == <<raw_data, df, wallet_action_pivot, wallet_summary, scaled, csv, pc, error>>

\* ------------------------------------------------------------------ bounds

\* Records appended to the seed file before the script runs.
MaxRecords == 1

\* Largest number of liquidations added to one wallet when two tables are compared.
MaxBump == 3

\* ------------------------------------------------------------------ floats

\* Fixed-point unit: three decimal places, 1.0 is Milli.
Milli == 10 * 10 * 10

Num(x) == [t |-> "num", v |-> x]
NaN == [t |-> "nan", v |-> 0]
NegInf == [t |-> "-inf", v |-> 0]
IsNum(f) == f.t = "num"
IsNaN(f) == f.t = "nan"

\* IEEE arithmetic of the cells the script combines: NaN propagates.
FMul(a, b) == IF IsNum(a) /\ IsNum(b) THEN Num((a.v * b.v) \div Milli) ELSE NaN

SetMin(S) == CHOOSE x \in S : \A y \in S : x <= y
SetMax(S) == CHOOSE x \in S : \A y \in S : x >= y

RECURSIVE SetToSortedSeq(_)
SetToSortedSeq(S) ==
  IF S = {} THEN <<>>
  ELSE LET m == SetMin(S) IN <<m>> \o SetToSortedSeq(S \ {m})

\* ln on [1.0, 2.0): linear interpolation between eighths, in thousandths.
LnKnots == <<0, 118, 223, 318, 405, 486, 560, 629, 693>>

LnFrac(m) ==
  LET i == (m - Milli) \div 125
      lo == LnKnots[i + 1]
      hi == LnKnots[i + 2]
  IN lo + ((hi - lo) * ((m - Milli) - i * 125)) \div 125

\* ln(y / Milli) * Milli for y > 0: range reduction by powers of two.
RECURSIVE LnMilli(_)
LnMilli(y) ==
  IF y >= 2 * Milli THEN LnKnots[9] + LnMilli(y \div 2)
  ELSE IF y < Milli THEN LnMilli(y * 2) - LnKnots[9]
  ELSE LnFrac(y)

\* np.log1p: NaN below -1, -inf at -1 (a RuntimeWarning, not an exception).
Log1p(x) ==
  IF ~IsNum(x) THEN NaN
  ELSE IF Milli + x.v < 0 THEN NaN
  ELSE IF Milli + x.v = 0 THEN NegInf
  ELSE Num(LnMilli(Milli + x.v))

\* ----------------------------------------------------------------- parsing

\* Numeric text is a sequence of one-character strings.
DigitChars == <<"0", "1", "2", "3", "4", "5", "6", "7", "8", "9">>
IsDigit(c) == \E i \in 1..10 : DigitChars[i] = c
DigitOf(c) == (CHOOSE i \in 1..10 : DigitChars[i] = c) - 1

RECURSIVE DigitsValue(_)
DigitsValue(s) ==
  IF s = <<>> THEN 0
  ELSE 10 * DigitsValue(SubSeq(s, 1, Len(s) - 1)) + DigitOf(s[Len(s)])

AllDigits(s) == \A i \in 1..Len(s) : IsDigit(s[i])

\* The fraction digits of a decimal as thousandths (digits past the third dropped).
FracMilli(f) ==
  LET d(i) == IF i <= Len(f) THEN DigitOf(f[i]) ELSE 0
  IN 100 * d(1) + 10 * d(2) + d(3)

\* Unsigned decimal text "ddd" or "ddd.ddd" scaled by `scale` (1 or Milli).
ParseUnsigned(s, scale) ==
  LET dots == {i \in 1..Len(s) : s[i] = "."}
  IN IF s = <<>> THEN NaN
     ELSE IF dots = {} THEN
       IF AllDigits(s) THEN Num(DigitsValue(s) * scale) ELSE NaN
     ELSE IF Cardinality(dots) > 1 THEN NaN
     ELSE LET p == CHOOSE i \in dots : TRUE
              ip == SubSeq(s, 1, p - 1)
              fp == SubSeq(s, p + 1, Len(s))
          IN IF Len(s) = 1 \/ ~AllDigits(ip) \/ ~AllDigits(fp) THEN NaN
             ELSE Num(DigitsValue(ip) * scale + (FracMilli(fp) * scale) \div Milli)

\* pd.to_numeric(..., errors="coerce"): the number, or NaN for text that is none.
ToNumeric(s, scale) ==
  IF s # <<>> /\ s[1] = "-"
  THEN LET u == ParseUnsigned(Tail(s), scale) IN IF IsNum(u) THEN Num(0 - u.v) ELSE NaN
  ELSE ParseUnsigned(s, scale)

\* pd.to_datetime(..., unit="s", errors="coerce"): epoch seconds, or NaT.
ToDatetime(s) == ToNumeric(s, 1)

\* Series.str.lower over the action spellings of the event log.
Lower(s) ==
  CASE s = "Borrow" -> "borrow"
    [] s = "Deposit" -> "deposit"
    [] s = "Repay" -> "repay"
    [] s = "RedeemUnderlying" -> "redeemunderlying"
    [] s = "LiquidationCall" -> "liquidationcall"
    [] OTHER -> s

\* ------------------------------------------------------------------ inputs

\* Wallet addresses, as the numbers they spell (groupby sorts by them).
WalletA == 9 + 1
WalletB == 9 + 2
WalletC == 9 + 3

Chars2M == <<"2", "0", "0", "0", "0", "0", "0">>
Chars1M == <<"1", "0", "0", "0", "0", "0", "0">>
CharsNeg3M == <<"-", "3", "0", "0", "0", "0", "0", "0">>
CharsBad == <<"a", "b", "c">>
CharsOne == <<"1", ".", "0">>
CharsHalf == <<"0", ".", "5">>
CharsDay1 == <<"8", "6", "4", "0", "0">>
CharsDay1Late == <<"9", "0", "0", "0", "0">>
CharsDay2 == <<"1", "7", "2", "8", "0", "0">>

RawEvent(w, a, ts, amt, sym, price) ==
  [userWallet |-> w, action |-> a, timestamp |-> ts,
   actionData |-> [amount |-> amt, assetSymbol |-> sym, assetPriceUSD |-> price]]

\* The records a file can be extended by: every combination of the fields
\* (an unparseable price is in HistoryC).
RawActions == {"deposit", "Borrow", "repay", "redeemunderlying", "liquidationcall", "swap"}
RawAmounts == {Chars2M, CharsNeg3M, CharsBad}
RawPrices == {CharsOne}
RawTimestamps == {CharsDay1, CharsBad}
RawSymbols == {"USDC"}
RawWallets == {WalletA, WalletB}

RawEvents ==
  {RawEvent(w, a, ts, amt, sym, price) :
     w \in RawWallets, a \in RawActions, ts \in RawTimestamps,
     amt \in RawAmounts, sym \in RawSymbols, price \in RawPrices}

\* Event logs the run starts from: an empty array, one wallet with a
\* deposit/borrow/repay history, and three wallets with differing histories.
HistoryA ==
  <<RawEvent(WalletA, "deposit", CharsDay1, Chars1M, "USDC", CharsOne),
    RawEvent(WalletA, "borrow", CharsDay1Late, Chars1M, "DAI", CharsHalf),
    RawEvent(WalletA, "repay", CharsDay2, Chars1M, "DAI", CharsHalf)>>

HistoryB ==
  <<RawEvent(WalletB, "deposit", CharsDay1, Chars2M, "USDC", CharsOne),
    RawEvent(WalletB, "borrow", CharsDay1, Chars2M, "USDC", CharsOne),
    RawEvent(WalletB, "repay", CharsDay1, Chars1M, "USDC", CharsOne),
    RawEvent(WalletB, "redeemunderlying", CharsDay1, Chars1M, "USDC", CharsHalf),
    RawEvent(WalletB, "liquidationcall", CharsDay1, Chars1M, "USDC", CharsOne),
    RawEvent(WalletB, "liquidationcall", CharsDay1, Chars1M, "USDC", CharsOne)>>

HistoryC ==
  <<RawEvent(WalletC, "deposit", CharsDay2, Chars1M, "WETH", CharsBad)>>

SeedFiles == {<<>>, HistoryA, HistoryA \o HistoryB \o HistoryC}

\* -------------------------------------------------------------- data frames

\* A frame is a sequence of rows; a row maps column names to cells.
WithColumn(row, c, cell) ==
  [k \in DOMAIN row \cup {c} |-> IF k = c THEN cell ELSE row[k]]

FrameWallets(frame) == {frame[i]["wallet"].v : i \in DOMAIN frame}

RowsOf(frame, w) == {i \in DOMAIN frame : frame[i]["wallet"].v = w}

\* ------------------------------------------------------------------ script

Init ==
  /\ raw_data \in SeedFiles
  /\ df = <<>>
  /\ wallet_action_pivot = <<>>
  /\ wallet_summary = <<>>
  /\ scaled = <<>>
  /\ csv = <<>>
  /\ pc = "load"
  /\ error = "none"

\* The file holds one more record (lines 11-13 read whatever it holds).
ReadRecord ==
  /\ pc = "load"
  /\ \E s \in SeedFiles :
       /\ Len(s) <= Len(raw_data)
       /\ SubSeq(raw_data, 1, Len(s)) = s
       /\ Len(raw_data) < Len(s) + MaxRecords
  /\ \E r \in RawEvents : raw_data' = Append(raw_data, r)
  /\ UNCHANGED <<df, wallet_action_pivot, wallet_summary, scaled, csv, pc, error>>

\* Lines 16-32: flatten, rename, coerce, compute usd_value, keep five columns.
NormalizeRecord(r) ==
  LET amount == ToNumeric(r.actionData.amount, 1)
      asset_price_usd == ToNumeric(r.actionData.assetPriceUSD, Milli)
      amount_scaled == IF IsNum(amount) THEN Num(amount.v \div (1000000 \div Milli)) ELSE NaN
  IN [wallet |-> r.userWallet,
      action |-> Lower(r.action),
      timestamp |-> ToDatetime(r.timestamp),
      asset_symbol |-> r.actionData.assetSymbol,
      usd_value |-> FMul(amount_scaled, asset_price_usd)]

Normalize ==
  /\ pc = "load"
  /\ IF raw_data = <<>>
     THEN /\ pc' = "failed"
          /\ error' = "KeyError: userWallet"
          /\ UNCHANGED df
     ELSE /\ df' = [i \in DOMAIN raw_data |-> NormalizeRecord(raw_data[i])]
          /\ pc' = "normalized"
          /\ UNCHANGED error
  /\ UNCHANGED <<raw_data, wallet_action_pivot, wallet_summary, scaled, csv>>

\* --- Step 1: Financial Totals per Wallet (lines 41-59) ---

relevant_actions == {"deposit", "borrow", "repay", "redeemunderlying"}

\* Lines 54-59: the pivot's action columns under their summary names.
RenamedColumn(a) ==
  CASE a = "deposit" -> "total_usd_deposited"
    [] a = "borrow" -> "total_usd_borrowed"
    [] a = "repay" -> "total_usd_repaid"
    [] a = "redeemunderlying" -> "total_usd_redeemed"
    [] OTHER -> a

\* Series.sum() over the rows I of frame f: NaN cells are skipped.
RECURSIVE SumUsd(_, _)
SumUsd(f, I) ==
  IF I = {} THEN 0
  ELSE LET i == CHOOSE j \in I : TRUE
       IN (IF IsNum(f[i].usd_value) THEN f[i].usd_value.v ELSE 0) + SumUsd(f, I \ {i})

GroupRows(f, w, a) == {i \in DOMAIN f : f[i].wallet = w /\ f[i].action = a}

\* groupby(["wallet","action"]).sum().unstack(fill_value=0).reset_index():
\* one row per wallet of f, one column per action that occurs in f.
Pivot(f) ==
  LET ws == SetToSortedSeq({f[i].wallet : i \in DOMAIN f})
      acts == {f[i].action : i \in DOMAIN f}
      cell(w, a) == IF GroupRows(f, w, a) = {} THEN Num(0) ELSE Num(SumUsd(f, GroupRows(f, w, a)))
  IN [k \in 1..Len(ws) |->
        [c \in {"wallet"} \cup {RenamedColumn(a) : a \in acts} |->
           IF c = "wallet" THEN Num(ws[k])
           ELSE cell(ws[k], CHOOSE a \in acts : RenamedColumn(a) = c)]]

\* Faulty variant: rows whose usd_value is NaN are dropped before the pivot.
filtered_df_dropna(f) ==
  SelectSeq(f, LAMBDA r : r.action \in relevant_actions /\ IsNum(r.usd_value))

filtered_df(f) == SelectSeq(f, LAMBDA r : r.action \in relevant_actions)

Step1 ==
  /\ pc = "normalized"
  /\ wallet_action_pivot' = Pivot(filtered_df(df))
  /\ pc' = "pivoted"
  /\ UNCHANGED <<raw_data, df, wallet_summary, scaled, csv, error>>

\* --- Step 2: Behavioral Ratios (lines 68-77) ---

\* row[c] of the lambdas: a column the pivot lacks raises KeyError.
Missing(row, c) == c \notin DOMAIN row

RepaymentRatioRaises(row) ==
  \/ Missing(row, "total_usd_borrowed")
  \/ row["total_usd_borrowed"].v > 0 /\ Missing(row, "total_usd_repaid")

\* Faulty variant: a wallet that never borrowed gets ratio 0.0.
RepaymentRatioZeroSentinel(row) ==
  IF row["total_usd_borrowed"].v > 0
  THEN Num((row["total_usd_repaid"].v * Milli) \div row["total_usd_borrowed"].v)
  ELSE Num(0)

RepaymentRatio(row) ==
  IF row["total_usd_borrowed"].v > 0
  THEN Num((row["total_usd_repaid"].v * Milli) \div row["total_usd_borrowed"].v)
  ELSE Num(Milli)

BorrowToDepositRaises(row) == Missing(row, "total_usd_deposited")

BorrowToDeposit(row) ==
  IF row["total_usd_deposited"].v > 0
  THEN Num((row["total_usd_borrowed"].v * Milli) \div row["total_usd_deposited"].v)
  ELSE Num(0)

Step2 ==
  /\ pc = "pivoted"
  /\ IF wallet_action_pivot = <<>>
     THEN \* apply() on a frame without rows returns a frame, which cannot be
          \* assigned to the single column borrow_to_deposit.
          /\ pc' = "failed"
          /\ error' = "ValueError: ratio of empty frame"
          /\ UNCHANGED wallet_action_pivot
     ELSE IF \E i \in DOMAIN wallet_action_pivot :
               \/ RepaymentRatioRaises(wallet_action_pivot[i])
               \/ BorrowToDepositRaises(wallet_action_pivot[i])
     THEN /\ pc' = "failed"
          /\ error' = "KeyError: total column"
          /\ UNCHANGED wallet_action_pivot
     ELSE /\ wallet_action_pivot' =
               [i \in DOMAIN wallet_action_pivot |->
                  LET r1 == WithColumn(wallet_action_pivot[i], "repayment_ratio",
                                       RepaymentRatio(wallet_action_pivot[i]))
                  IN WithColumn(r1, "borrow_to_deposit", BorrowToDeposit(r1))]
          /\ pc' = "ratios"
          /\ UNCHANGED error
  /\ UNCHANGED <<raw_data, df, wallet_summary, scaled, csv>>

\* --- joins (lines 93, 110, 111, 122) ---

\* Faulty variant: how="inner", a left row without a match is dropped.
RECURSIVE InnerMerge(_, _, _)
InnerMerge(left, right, c) ==
  IF left = <<>> THEN <<>>
  ELSE LET row == Head(left)
           hits == SelectSeq(right, LAMBDA r : r["wallet"] = row["wallet"])
       IN [j \in DOMAIN hits |-> WithColumn(row, c, hits[j][c])]
          \o InnerMerge(Tail(left), right, c)

\* pd.merge(left, right, on="wallet", how="left"): every left row once per
\* matching right row, or once with NaN in right's column c when none matches.
RECURSIVE LeftMerge(_, _, _)
LeftMerge(left, right, c) ==
  IF left = <<>> THEN <<>>
  ELSE LET row == Head(left)
           hits == SelectSeq(right, LAMBDA r : r["wallet"] = row["wallet"])
           joined == IF hits = <<>>
                     THEN <<WithColumn(row, c, NaN)>>
                     ELSE [j \in DOMAIN hits |-> WithColumn(row, c, hits[j][c])]
       IN joined \o LeftMerge(Tail(left), right, c)

\* groupby("wallet")...reset_index(name=c): one row per wallet of f, sorted.
\* agg maps each wallet of f to the group's aggregate.
GroupFrame(f, c, agg) ==
  LET ws == SetToSortedSeq({f[i].wallet : i \in DOMAIN f})
  IN [k \in 1..Len(ws) |-> [wallet |-> Num(ws[k])] @@ (c :> Num(agg[ws[k]]))]

WalletsOf(f) == {f[i].wallet : i \in DOMAIN f}

\* fillna(0) of one column.
FillNa0(frame, c) ==
  [i \in DOMAIN frame |->
     IF IsNaN(frame[i][c]) THEN WithColumn(frame[i], c, Num(0)) ELSE frame[i]]

\* --- Step 3: Liquidation Count (lines 85-94) ---

liquidations(f) ==
  LET liq == SelectSeq(f, LAMBDA r : r.action = "liquidationcall")
  IN GroupFrame(liq, "num_liquidations",
                [w \in WalletsOf(liq) |-> Cardinality({i \in DOMAIN liq : liq[i].wallet = w})])

Step3 ==
  /\ pc = "ratios"
  /\ wallet_summary' =
       FillNa0(LeftMerge(wallet_action_pivot, liquidations(df), "num_liquidations"),
               "num_liquidations")
  /\ pc' = "liquidations"
  /\ UNCHANGED <<raw_data, df, wallet_action_pivot, scaled, csv, error>>

\* --- Step 4: Transaction Frequency (lines 103-111) ---

tx_counts(f) ==
  GroupFrame(f, "tx_count",
             [w \in WalletsOf(f) |-> Cardinality({i \in DOMAIN f : f[i].wallet = w})])

\* Faulty variant: NaT is bucketed as a date of its own.
DateOfNaTAsDay(ts) == IF IsNum(ts) THEN Num(ts.v \div 86400) ELSE Num(0 - 1)

\* Series.dt.date: the calendar day of the timestamp, NaT staying NaT.
DateOf(ts) == IF IsNum(ts) THEN Num(ts.v \div 86400) ELSE NaN

\* groupby("wallet")["date"].nunique(): distinct dates, NaT not counted.
active_days(f) ==
  GroupFrame(f, "active_days",
             [w \in WalletsOf(f) |->
                Cardinality({f[i].date.v : i \in {j \in DOMAIN f :
                                                    f[j].wallet = w /\ IsNum(f[j].date)}})])

Step4 ==
  /\ pc = "liquidations"
  /\ LET dated == [i \in DOMAIN df |-> WithColumn(df[i], "date", DateOf(df[i].timestamp))]
     IN /\ df' = dated
        /\ wallet_summary' =
             LeftMerge(LeftMerge(wallet_summary, tx_counts(df), "tx_count"),
                       active_days(dated), "active_days")
  /\ pc' = "frequency"
  /\ UNCHANGED <<raw_data, wallet_action_pivot, scaled, csv, error>>

\* --- Step 5: Token Diversity (lines 119-122) ---

diversity(f) ==
  GroupFrame(f, "asset_diversity",
             [w \in WalletsOf(f) |->
                Cardinality({f[i].asset_symbol : i \in {j \in DOMAIN f : f[j].wallet = w}})])

Step5 ==
  /\ pc = "frequency"
  /\ wallet_summary' = LeftMerge(wallet_summary, diversity(df), "asset_diversity")
  /\ pc' = "diversity"
  /\ UNCHANGED <<raw_data, df, wallet_action_pivot, scaled, csv, error>>

\* --- Final Step: Score Generation (lines 131-165) ---

\* Series.clip(upper=u).
ClipUpper(x, u) == IF x.v > u THEN Num(u) ELSE x

\* Whole-number columns (counts) hold the number itself; np.log1p sees it as a float.
AsFloat(n) == Num(n.v * Milli)

\* Faulty variant: the sign inversion is lost.
LiquidationPenaltyNotInverted(row) == Num(row["num_liquidations"].v)

LiquidationPenalty(row) == Num(0 - row["num_liquidations"].v)

\* Lines 131-144: the six derived feature columns of one row.
Shaped(row) ==
  row @@ [repayment_ratio_capped |-> ClipUpper(row["repayment_ratio"], Milli),
          borrow_inverse |-> Num(Milli - ClipUpper(row["borrow_to_deposit"], Milli).v),
          log_tx_count |-> Log1p(AsFloat(row["tx_count"])),
          log_deposit |-> Log1p(row["total_usd_deposited"]),
          asset_diversity_capped |-> ClipUpper(row["asset_diversity"], 10),
          liquidation_penalty |-> LiquidationPenalty(row)]

Shape ==
  /\ pc = "diversity"
  /\ wallet_summary' = [i \in DOMAIN wallet_summary |-> Shaped(wallet_summary[i])]
  /\ pc' = "shaped"
  /\ UNCHANGED <<raw_data, df, wallet_action_pivot, scaled, csv, error>>

\* Lines 147-155 and 161, in thousandths.
features ==
  <<"repayment_ratio_capped", "borrow_inverse", "log_tx_count", "active_days",
    "asset_diversity_capped", "log_deposit", "liquidation_penalty">>

weights == <<250, 150, 100, 100, 100, 100, 200>>

\* MinMaxScaler.fit: per column, the minimum and maximum of the cells that are
\* not NaN (nanmin, nanmax).
ColumnValues(frame, c) == {frame[i][c].v : i \in {j \in DOMAIN frame : IsNum(frame[j][c])}}

\* MinMaxScaler.transform of one cell: a NaN cell stays NaN, a column of zero
\* range maps to 0 (the scale of such a column is set to 1).
MinMax(frame, c, cell) ==
  IF ~IsNum(cell) THEN NaN
  ELSE LET lo == SetMin(ColumnValues(frame, c))
           hi == SetMax(ColumnValues(frame, c))
       IN IF hi = lo THEN Num(0) ELSE Num(((cell.v - lo) * Milli) \div (hi - lo))

FitTransform(frame) ==
  [i \in DOMAIN frame |-> [k \in DOMAIN features |-> MinMax(frame, features[k], frame[i][features[k]])]]

\* check_array(force_all_finite="allow-nan") of the scaler: infinity is refused.
HasInfinity(frame) ==
  \E i \in DOMAIN frame : \E k \in DOMAIN features : frame[i][features[k]].t = "-inf"

RECURSIVE Dot(_, _, _)
Dot(x, w, k) == IF k = 0 THEN 0 ELSE x[k].v * w[k] + Dot(x, w, k - 1)

\* Series.round(2) of a value in thousandths.
Round2(x) == ((x + 5) \div 10) * 10

\* Lines 162-165: (scaled @ weights) * 1000, rounded; NaN if any feature is NaN.
CreditScore(x) ==
  IF \E k \in DOMAIN x : ~IsNum(x[k]) THEN NaN
  ELSE Num(Round2((Dot(x, weights, Len(weights)) * 1000) \div Milli))

Score ==
  /\ pc = "shaped"
  /\ IF HasInfinity(wallet_summary)
     THEN /\ pc' = "failed"
          /\ error' = "ValueError: Input contains infinity"
          /\ UNCHANGED <<scaled, wallet_summary>>
     ELSE /\ scaled' = FitTransform(wallet_summary)
          /\ wallet_summary' =
               [i \in DOMAIN wallet_summary |->
                  WithColumn(wallet_summary[i], "credit_score", CreditScore(scaled'[i]))]
          /\ pc' = "scored"
          /\ UNCHANGED error
  /\ UNCHANGED <<raw_data, df, wallet_action_pivot, csv>>

\* Lines 172-173: wallet_summary[["wallet", "credit_score"]].to_csv(...).
Save ==
  /\ pc = "scored"
  /\ csv' = [i \in DOMAIN wallet_summary |->
               [wallet |-> wallet_summary[i]["wallet"],
                credit_score |-> wallet_summary[i]["credit_score"]]]
  /\ pc' = "saved"
  /\ UNCHANGED <<raw_data, df, wallet_action_pivot, wallet_summary, scaled, error>>

Next ==
  \/ ReadRecord
  \/ Normalize
  \/ Step1
  \/ Step2
  \/ Step3
  \/ Step4
  \/ Step5
  \/ Shape
  \/ Score
  \/ Save

Spec == Init /\ [][Next]_vars

\* ------------------------------------------------------ what the input says

\* The properties below are stated against the event log itself.
RawOf(w) == {i \in DOMAIN raw_data : raw_data[i].userWallet = w}
IsFinancial(r) == Lower(r.action) \in relevant_actions
IsLiquidation(r) == Lower(r.action) = "liquidationcall"
FinancialWallets == {raw_data[i].userWallet : i \in {j \in DOMAIN raw_data : IsFinancial(raw_data[j])}}
AmountParses(r) == IsNum(ToNumeric(r.actionData.amount, 1))
PriceParses(r) == IsNum(ToNumeric(r.actionData.assetPriceUSD, Milli))
TimestampParses(r) == IsNum(ToDatetime(r.timestamp))

\* Dollar value of the well-formed records I, in thousandths; malformed ones count 0.
RECURSIVE ParsedUsd(_)
ParsedUsd(I) ==
  IF I = {} THEN 0
  ELSE LET i == CHOOSE j \in I : TRUE
           r == raw_data[i]
       IN (IF AmountParses(r) /\ PriceParses(r) THEN NormalizeRecord(r).usd_value.v ELSE 0)
          + ParsedUsd(I \ {i})

ExpectedTotal(w, a) == ParsedUsd({i \in RawOf(w) : Lower(raw_data[i].action) = a})

SummaryBuilt == pc \in {"liquidations", "frequency", "diversity", "shaped", "scored", "saved"}
FrequencyJoined == pc \in {"frequency", "diversity", "shaped", "scored", "saved"}
Scored == pc \in {"scored", "saved"}

ScoreMax == 1000 * Milli

\* ------------------------------------------------------------------ claims

\* C1: every wallet's final credit_score is a number with 0 <= credit_score <= 1000.
C1_ScoreInRange ==
  Scored =>
    \A i \in DOMAIN wallet_summary :
      /\ IsNum(wallet_summary[i]["credit_score"])
      /\ wallet_summary[i]["credit_score"].v >= 0
      /\ wallet_summary[i]["credit_score"].v <= ScoreMax

\* C2: for every input, the run does not die on a missing total, and every
\* wallet of the pivot has all four totals, each the sum of usd_value over the
\* wallet's events of that action (0 when it has none).
C2_FourTotalsDefined ==
  /\ pc = "failed" => error # "KeyError: total column"
  /\ \A i \in DOMAIN wallet_action_pivot : \A a \in relevant_actions :
       /\ RenamedColumn(a) \in DOMAIN wallet_action_pivot[i]
       /\ wallet_action_pivot[i][RenamedColumn(a)] =
            Num(ExpectedTotal(wallet_action_pivot[i]["wallet"].v, a))

\* C3: the summary (and the written table) holds exactly one row per wallet
\* with a deposit, borrow, repay or redeemunderlying event and no other row,
\* and num_liquidations is the wallet's liquidationcall count, 0 without any.
C3_OneRowPerFinancialWallet ==
  /\ SummaryBuilt =>
       /\ FrameWallets(wallet_summary) = FinancialWallets
       /\ \A w \in FinancialWallets : Cardinality(RowsOf(wallet_summary, w)) = 1
       /\ \A i \in DOMAIN wallet_summary :
            wallet_summary[i]["num_liquidations"] =
              Num(Cardinality({j \in RawOf(wallet_summary[i]["wallet"].v) :
                                 IsLiquidation(raw_data[j])}))
  /\ pc = "saved" =>
       /\ {csv[i].wallet.v : i \in DOMAIN csv} = FinancialWallets
       /\ Len(csv) = Cardinality(FinancialWallets)

C3_Witness ==
  /\ pc = "saved"
  /\ \E i \in DOMAIN raw_data :
       /\ IsLiquidation(raw_data[i])
       /\ raw_data[i].userWallet \notin FinancialWallets
  /\ \E i \in DOMAIN wallet_summary : wallet_summary[i]["num_liquidations"] = Num(0)

\* C4 as stated: every wallet of the summary has tx_count >= 1 and
\* active_days >= 1, also when its timestamps cannot be parsed.
C4_ActivityAtLeastOne ==
  FrequencyJoined =>
    \A i \in DOMAIN wallet_summary :
      /\ wallet_summary[i]["tx_count"].v >= 1
      /\ wallet_summary[i]["active_days"].v >= 1

\* C4 amended: every wallet of the summary has tx_count >= 1; its active_days
\* is >= 1 exactly when one of its events has a parseable timestamp, and 0
\* when none has.
C4_ActivityAmended ==
  FrequencyJoined =>
    \A i \in DOMAIN wallet_summary :
      LET w == wallet_summary[i]["wallet"].v IN
      /\ IsNum(wallet_summary[i]["tx_count"]) /\ wallet_summary[i]["tx_count"].v >= 1
      /\ IsNum(wallet_summary[i]["active_days"])
      /\ (\E j \in RawOf(w) : TimestampParses(raw_data[j]))
           => wallet_summary[i]["active_days"].v >= 1
      /\ (\A j \in RawOf(w) : ~TimestampParses(raw_data[j]))
           => wallet_summary[i]["active_days"].v = 0

C4_Witness ==
  /\ pc = "saved"
  /\ \E i \in DOMAIN wallet_summary :
       /\ wallet_summary[i]["active_days"] = Num(0)
       /\ wallet_summary[i]["tx_count"].v >= 1

\* Why a run died, read off the input with every malformed field counted as
\* 0 / no date: an empty file, no financial event, an action that occurs
\* nowhere, or a deposit total of exactly -1.  No cause is a parse failure.
ActionOccurs(a) == \E i \in DOMAIN raw_data : Lower(raw_data[i].action) = a

FailureCause ==
  \/ raw_data = <<>>
  \/ FinancialWallets = {}
  \/ ~ActionOccurs("borrow")
  \/ ~ActionOccurs("deposit")
  \/ ~ActionOccurs("repay") /\ \E w \in FinancialWallets : ExpectedTotal(w, "borrow") > 0
  \/ \E w \in FinancialWallets : ExpectedTotal(w, "deposit") = 0 - Milli

\* C5: a record with an unparseable amount, price or timestamp is kept: the
\* normalised log is as long as the input, the record counts in tx_count, a
\* financial one puts its wallet in the pivot, it adds exactly 0 to the USD
\* totals when its amount or price is unparseable, and an unparseable
\* timestamp leaves its amount in the totals; no run dies of a malformed field.
C5_MalformedKept ==
  /\ pc \notin {"load", "failed"} => Len(df) = Len(raw_data)
  /\ pc \notin {"load", "normalized", "failed"} =>
       /\ FinancialWallets \subseteq FrameWallets(wallet_action_pivot)
       /\ \A i \in DOMAIN wallet_action_pivot : \A a \in relevant_actions :
            RenamedColumn(a) \in DOMAIN wallet_action_pivot[i] =>
              wallet_action_pivot[i][RenamedColumn(a)] =
                Num(ExpectedTotal(wallet_action_pivot[i]["wallet"].v, a))
  /\ FrequencyJoined =>
       \A i \in DOMAIN wallet_summary :
         wallet_summary[i]["tx_count"] =
           Num(Cardinality(RawOf(wallet_summary[i]["wallet"].v)))
  /\ pc = "failed" => FailureCause

C5_Witness ==
  /\ pc = "saved"
  /\ \E i \in DOMAIN raw_data :
       /\ IsFinancial(raw_data[i])
       /\ ~PriceParses(raw_data[i])
       /\ RawOf(raw_data[i].userWallet) = {i}
       /\ raw_data[i].userWallet \in FrameWallets(wallet_summary)
  /\ \E i \in DOMAIN raw_data :
       /\ IsFinancial(raw_data[i])
       /\ ~AmountParses(raw_data[i])
       /\ ~TimestampParses(raw_data[i])
       /\ ExpectedTotal(raw_data[i].userWallet, Lower(raw_data[i].action)) > 0

\* C6: repayment_ratio is repaid / borrowed when borrowed > 0 and exactly 1.0
\* when borrowed = 0; borrow_to_deposit is borrowed / deposited when
\* deposited > 0 and exactly 0.0 when deposited = 0.  (A quotient q of n by
\* d > 0 in thousandths is the q with q * d <= n * 1000 < (q + 1) * d.)
C6_Ratios ==
  pc \notin {"load", "normalized", "pivoted", "failed"} =>
    \A i \in DOMAIN wallet_action_pivot :
      LET row == wallet_action_pivot[i]
          borrowed == row["total_usd_borrowed"].v
          deposited == row["total_usd_deposited"].v
          rr == row["repayment_ratio"]
          bd == row["borrow_to_deposit"]
      IN /\ IsNum(rr) /\ IsNum(bd)
         /\ borrowed > 0 =>
              /\ rr.v * borrowed <= row["total_usd_repaid"].v * Milli
              /\ row["total_usd_repaid"].v * Milli < (rr.v + 1) * borrowed
         /\ borrowed = 0 => rr.v = Milli
         /\ deposited > 0 =>
              /\ bd.v * deposited <= borrowed * Milli
              /\ borrowed * Milli < (bd.v + 1) * deposited
         /\ deposited = 0 => bd.v = 0

C6_Witness ==
  /\ pc = "saved"
  /\ \E i \in DOMAIN wallet_summary :
       /\ wallet_summary[i]["total_usd_borrowed"].v = 0
       /\ wallet_summary[i]["total_usd_deposited"].v = 0
       /\ wallet_summary[i]["repayment_ratio"].v = Milli
       /\ wallet_summary[i]["borrow_to_deposit"].v = 0
  /\ \E i \in DOMAIN wallet_summary :
       /\ wallet_summary[i]["total_usd_borrowed"].v > 0
       /\ wallet_summary[i]["total_usd_deposited"].v > 0
       /\ wallet_summary[i]["repayment_ratio"].v < Milli
       /\ wallet_summary[i]["borrow_to_deposit"].v > 0

\* The scored table with k more liquidations on row i and everything else as it is.
WithMoreLiquidations(frame, i, k) ==
  [j \in DOMAIN frame |->
     IF j # i THEN frame[j]
     ELSE LET more == WithColumn(frame[j], "num_liquidations",
                                 Num(frame[j]["num_liquidations"].v + k))
          IN WithColumn(more, "liquidation_penalty", LiquidationPenalty(more))]

RescoredWithMore(i, k) == CreditScore(FitTransform(WithMoreLiquidations(wallet_summary, i, k))[i])

\* C7: in a table that differs from the scored one only in a larger
\* num_liquidations of one wallet, that wallet's credit_score is not higher
\* (and is undefined only if it was undefined before), whatever the change
\* does to the column's minimum and maximum.
C7_LiquidationMonotone ==
  Scored =>
    \A i \in DOMAIN wallet_summary : \A k \in 1..MaxBump :
      LET before == wallet_summary[i]["credit_score"]
          after == RescoredWithMore(i, k)
      IN \/ IsNaN(before) /\ IsNaN(after)
         \/ IsNum(before) /\ IsNum(after) /\ after.v <= before.v

C7_Witness ==
  /\ pc = "scored"
  /\ Len(wallet_summary) >= 3
  /\ \E i \in DOMAIN wallet_summary : \E k \in 1..MaxBump :
       /\ IsNum(RescoredWithMore(i, k))
       /\ RescoredWithMore(i, k).v < wallet_summary[i]["credit_score"].v
       /\ 0 - (wallet_summary[i]["num_liquidations"].v + k)
            < SetMin(ColumnValues(wallet_summary, "liquidation_penalty"))
  /\ \E i \in DOMAIN wallet_summary :
       /\ RescoredWithMore(i, 1).v < wallet_summary[i]["credit_score"].v
       /\ 0 - (wallet_summary[i]["num_liquidations"].v + 1)
            > SetMin(ColumnValues(wallet_summary, "liquidation_penalty"))

\* C8: per feature column, scaled = (value - min) / (max - min) when max > min
\* and 0.0 for every row when max = min; so a population of one wallet has
\* every scaled feature 0.0 and credit_score 0.
C8_ZeroVariance ==
  Scored =>
    /\ \A k \in DOMAIN features : \A i \in DOMAIN wallet_summary :
         LET col == {wallet_summary[j][features[k]].v : j \in DOMAIN wallet_summary}
             lo == SetMin(col)
             hi == SetMax(col)
             x == wallet_summary[i][features[k]].v
         IN /\ IsNum(scaled[i][k])
            /\ hi = lo => scaled[i][k].v = 0
            /\ hi > lo => /\ scaled[i][k].v * (hi - lo) <= (x - lo) * Milli
                          /\ (x - lo) * Milli < (scaled[i][k].v + 1) * (hi - lo)
    /\ Len(wallet_summary) = 1 =>
         /\ \A k \in DOMAIN features : scaled[1][k] = Num(0)
         /\ wallet_summary[1]["credit_score"] = Num(0)

\* C9: with zero or negative usd_value in the input the run does not raise in
\* the log or min-max step, and every wallet, also one whose
\* total_usd_deposited is <= -1, gets a credit_score in [0, 1000].
C9_NegativeTolerated ==
  /\ pc = "failed" => error # "ValueError: Input contains infinity"
  /\ Scored =>
       \A i \in DOMAIN wallet_summary :
         wallet_summary[i]["total_usd_deposited"].v <= 0 =>
           /\ IsNum(wallet_summary[i]["credit_score"])
           /\ wallet_summary[i]["credit_score"].v \in 0..ScoreMax

\* C10: a log of well-formed records none of which is a deposit, borrow, repay
\* or redeemunderlying ends in a defined outcome, not in an error raised by
\* the aggregation, ratio or scoring steps.
C10_EmptyPopulationDefined ==
  (raw_data # <<>> /\ FinancialWallets = {}) =>
    ~(pc = "failed" /\ error # "KeyError: userWallet")

====
